---- MODULE Spec2Model ----
(***************************************************************************)
(* A model of the filter codec and the embedding routine of quaklas.       *)
(*                                                                         *)
(* JavaScript strings are sequences of one-character strings, so that the  *)
(* regular expressions, joins and splits of the code are computed          *)
(* character by character.  A URLSearchParams container is a sequence of   *)
(* <<field, value>> entries.                                               *)
(***************************************************************************)
EXTENDS Integers, Sequences, FiniteSets, TLC

VARIABLES
    V,          \* SpecEntities: the list of values handed to the encoder
    encoded,    \* SpecEntities: the space-joined encoding of V
    entities,   \* SpecEntities: what parseEntities returns for encoded
    epc,        \* SpecEntities: "input" | "encoded" | "parsed"
    F,          \* SpecFilters: the filter list the round trips start from
    container,     \* SpecFilters: the container the filters of F are written to
    decoded,    \* SpecFilters: the filters decoded from container
    statement,  \* SpecFilters: the statement built for F
    extracted,  \* SpecFilters: what extractFilters returns for statement
    fpc,        \* SpecFilters: "input" | "written" | "decoded" | "built" | "extracted"
    table,      \* SpecExtract: the table the statement selects from
    conds,      \* SpecExtract: the sub-conditions the statement is made of
    style,      \* SpecExtract: how the sub-conditions are put together
    emitted,        \* SpecExtract: the statement handed to extractFilters
    result,     \* SpecExtract: what extractFilters returns or raises
    written,    \* SpecExtract: serializeAndWriteFilterSearchParams on an empty container
    xpc,        \* SpecExtract: "input" | "extracted" | "written"
    mode,       \* SpecEmbed: options.mode, "obs" | "cells"
    search,     \* SpecEmbed: globalThis.location.search
    pc,         \* SpecEmbed: where embed stands
    query,      \* SpecEmbed: the local query of embed
    task,       \* SpecEmbed: per table, where its fetch-and-register stands
    execs,      \* SpecEmbed: the statements handed to exec, <<>> before the call
    widget,     \* SpecEmbed: the view the table widget was created on, <<>> before
    appended,   \* SpecEmbed: how many children embed appended to el
    links,      \* SpecEmbed: the search component of the href of the two links
    notified    \* SpecEmbed: the sub-conditions of the latest statement notified

entityVars == <<V, encoded, entities, epc>>

filterVars == <<F, container, decoded, statement, extracted, fpc>>

extractVars == <<table, conds, style, emitted, result, written, xpc>>

embedVars ==
    <<mode, search, pc, query, task, execs, widget, appended, links, notified>>

vars == <<entityVars, filterVars, extractVars, embedVars>>

----------------------------------------------------------------------------
(* Characters and strings                                                  *)

Digits == {"0", "1", "2", "3", "4", "5", "6", "7", "8", "9"}

\* The characters the regular-expression class \s matches.
Whitespace == {" ", "\t", "\n", "\r", "\f"}

\* The characters the regular-expression atom . does not match.
LineTerminators == {"\n", "\r"}

DQ == "\""

SQ == "'"

BS == "\\"

Sub(s, i, j) == SubSeq(s, i, j)

\* s.includes(c) for a single character c
Includes(s, c) == \E i \in 1..Len(s) : s[i] = c

\* whether the literal text lit stands in s at position p
LitAt(s, p, lit) ==
    /\ p >= 1
    /\ p + Len(lit) - 1 <= Len(s)
    /\ \A i \in 1..Len(lit) : s[p + i - 1] = lit[i]

RECURSIVE Join(_, _)
\* Array.prototype.join: the strings of list, separated by sep
Join(list, sep) ==
    IF Len(list) = 0 THEN <<>>
    ELSE IF Len(list) = 1 THEN list[1]
    ELSE list[1] \o sep \o Join(Tail(list), sep)

\* the end of the longest run of characters of class cls that starts at p
\* (p - 1 when s[p] is not in cls)
RECURSIVE RunEnd(_, _, _)
RunEnd(s, p, cls) ==
    IF p <= Len(s) /\ s[p] \in cls THEN RunEnd(s, p + 1, cls) ELSE p - 1

----------------------------------------------------------------------------
(* parseEntities                                                           *)

\* the characters [^\s"] matches, among those that occur
BareChars(s) == {s[i] : i \in 1..Len(s)} \ (Whitespace \cup {DQ})

RECURSIVE ScanQuoted(_, _)
\* "([^"\\]*(?:\\.[^"\\]*)*)" from the character after the opening quote:
\* the position of the closing quote, or 0 when the span does not close
ScanQuoted(s, i) ==
    IF i > Len(s) THEN 0
    ELSE IF s[i] = DQ THEN i
    ELSE IF s[i] = BS
         THEN IF i + 1 <= Len(s) /\ s[i + 1] \notin LineTerminators
              THEN ScanQuoted(s, i + 2)
              ELSE 0
    ELSE ScanQuoted(s, i + 1)

RECURSIVE Unescape(_)
\* match[2].replace(/\\"/g, '"')
Unescape(s) ==
    IF Len(s) = 0 THEN <<>>
    ELSE IF Len(s) >= 2 /\ s[1] = BS /\ s[2] = DQ
         THEN <<DQ>> \o Unescape(Sub(s, 3, Len(s)))
    ELSE <<s[1]>> \o Unescape(Tail(s))

RECURSIVE ParseFrom(_, _, _)
\* the loop of regex.exec from lastIndex p, with the entities pushed so far
ParseFrom(s, p, acc) ==
    IF p > Len(s) THEN acc
    ELSE IF s[p] \in BareChars(s)
         THEN LET e == RunEnd(s, p, BareChars(s))
              IN  ParseFrom(s, e + 1, Append(acc, Sub(s, p, e)))
    ELSE IF s[p] = DQ
         THEN LET c == ScanQuoted(s, p + 1)
              IN  IF c = 0 THEN ParseFrom(s, p + 1, acc)
                  ELSE IF c > p + 1
                       THEN ParseFrom(s, c + 1,
                                Append(acc, Unescape(Sub(s, p + 1, c - 1))))
                       ELSE ParseFrom(s, c + 1, acc)
    ELSE ParseFrom(s, p + 1, acc)

parseEntities(input) == ParseFrom(input, 1, <<>>)

\* filter.values.map((v) => v.includes(" ") ? `"${v}"` : v).join(" ")
EncodeValues(values) ==
    Join([i \in 1..Len(values) |->
            IF Includes(values[i], " ")
            THEN <<DQ>> \o values[i] \o <<DQ>>
            ELSE values[i]],
         <<" ">>)

----------------------------------------------------------------------------
(* Numbers: Number(text) and the text of a number                          *)

\* A number is NaN or <<"number", m, k>>, the value m / 10^k, with no trailing
\* zero among the k decimals.  (A tuple, so that a list of values may hold
\* numbers or strings.)
NaN == <<"NaN">>

Decimal(m, k) == <<"number", m, k>>

Mantissa(x) == x[2]

Decimals(x) == x[3]

RECURSIVE Pow(_, _)
Pow(b, n) == IF n = 0 THEN 1 ELSE b * Pow(b, n - 1)

RECURSIVE Normalise(_, _)
Normalise(m, k) ==
    IF k > 0 /\ m % 10 = 0 THEN Normalise(m \div 10, k - 1)
    ELSE Decimal(m, k)

DigitValue(c) ==
    CASE c = "0" -> 0 [] c = "1" -> 1 [] c = "2" -> 2 [] c = "3" -> 3
      [] c = "4" -> 4 [] c = "5" -> 5 [] c = "6" -> 6 [] c = "7" -> 7
      [] c = "8" -> 8 [] c = "9" -> 9

DigitChar(d) == <<"0", "1", "2", "3", "4", "5", "6", "7", "8", "9">>[d + 1]

RECURSIVE ParseRadix(_, _)
\* the value of a run of digits in radix r
ParseRadix(ds, r) ==
    IF Len(ds) = 0 THEN 0
    ELSE ParseRadix(Sub(ds, 1, Len(ds) - 1), r) * r + DigitValue(ds[Len(ds)])

AllDigits(s) == \A i \in 1..Len(s) : s[i] \in Digits

\* Number(text) for the texts the pattern \d+.\d+ captures: a run of digits,
\* one character, a run of digits
Number(text) ==
    IF AllDigits(text) THEN Decimal(ParseRadix(text, 10), 0)
    ELSE LET i  == RunEnd(text, 1, Digits) + 1
             c  == text[i]
             d1 == Sub(text, 1, i - 1)
             d2 == Sub(text, i + 1, Len(text))
             radix == CASE c \in {"x", "X"} -> 16
                        [] c \in {"o", "O"} -> 8
                        [] c \in {"b", "B"} -> 2
                        [] OTHER -> 0
         IN  IF Len(d1) = 0 \/ Len(d2) = 0 \/ ~AllDigits(d2) THEN NaN
             ELSE IF c = "." THEN Normalise(ParseRadix(d1 \o d2, 10), Len(d2))
             ELSE IF c \in {"e", "E"}
                  THEN Decimal(ParseRadix(d1, 10) * Pow(10, ParseRadix(d2, 10)),
                               0)
             ELSE IF radix # 0 /\ d1 = <<"0">>
                  THEN IF \A j \in 1..Len(d2) : DigitValue(d2[j]) < radix
                       THEN Decimal(ParseRadix(d2, radix), 0)
                       ELSE NaN
             ELSE NaN

RECURSIVE NatText(_)
NatText(n) ==
    IF n < 10 THEN <<DigitChar(n)>>
    ELSE NatText(n \div 10) \o <<DigitChar(n % 10)>>

RECURSIVE PadZeros(_, _)
PadZeros(s, n) == IF Len(s) >= n THEN s ELSE PadZeros(<<"0">> \o s, n)

\* `${x}` and Array.prototype.join for a number x (the plain decimal
\* notation, which is the one JavaScript uses below 1e21 and above 1e-7)
NumberText(x) ==
    IF x = NaN THEN <<"N", "a", "N">>
    ELSE LET a == IF Mantissa(x) < 0 THEN -Mantissa(x) ELSE Mantissa(x)
             p == Pow(10, Decimals(x))
         IN  (IF Mantissa(x) < 0 THEN <<"-">> ELSE <<>>)
             \o NatText(a \div p)
             \o (IF Decimals(x) = 0 THEN <<>>
                 ELSE <<".">> \o PadZeros(NatText(a % p), Decimals(x)))

----------------------------------------------------------------------------
(* The pattern (\d+.\d+)                                                   *)

\* The ways \d+.\d+ matches from position p: <<i, e>> where the first run of
\* digits ends at i, any one character that is no line terminator follows,
\* and the second run of digits ends at e.
NumMatches(s, p) ==
    {ie \in (p..RunEnd(s, p, Digits)) \X (p..Len(s)) :
        /\ ie[1] + 1 <= Len(s)
        /\ s[ie[1] + 1] \notin LineTerminators
        /\ ie[1] + 2 <= ie[2]
        /\ ie[2] <= RunEnd(s, ie[1] + 2, Digits)}

\* The match the backtracking engine settles on among a non-empty set of
\* candidates: both quantifiers are greedy, so the longest first run wins and
\* then the longest second run.
Greediest(cands) ==
    CHOOSE ie \in cands :
        \A o \in cands : o[1] < ie[1] \/ (o[1] = ie[1] /\ o[2] <= ie[2])

\* (\d+.\d+)<sep>(\d+.\d+) from position p: <<e1, e2>>, the ends of the two
\* captures, or <<>> when there is no match at p
NumPairAt(s, p, sep) ==
    LET second(e1) == NumMatches(s, e1 + Len(sep) + 1)
        firsts == {ie \in NumMatches(s, p) :
                      LitAt(s, ie[2] + 1, sep) /\ second(ie[2]) # {}}
    IN  IF firsts = {} THEN <<>>
        ELSE LET e1 == Greediest(firsts)[2]
             IN  <<e1, Greediest(second(e1))[2]>>

----------------------------------------------------------------------------
(* deserializeFilterSearchParam                                            *)

RangeFilter(field, min, max) ==
    [field |-> field, kind |-> "range", values |-> <<min, max>>]

CategoricalFilter(field, values) ==
    [field |-> field, kind |-> "categorical", values |-> values]

\* value.match(/(\d+.\d+) (\d+.\d+)/): <<start, e1, e2>> of the leftmost
\* match, or <<>>
RangeParamMatch(value) ==
    LET starts == {p \in 1..Len(value) : NumPairAt(value, p, <<" ">>) # <<>>}
    IN  IF starts = {} THEN <<>>
        ELSE LET p == CHOOSE q \in starts : \A o \in starts : q <= o
             IN  <<p>> \o NumPairAt(value, p, <<" ">>)

deserializeFilterSearchParam(field, value) ==
    LET range == RangeParamMatch(value)
    IN  IF range # <<>>
        THEN RangeFilter(field,
                 Number(Sub(value, range[1], range[2])),
                 Number(Sub(value, range[2] + 2, range[3])))
        ELSE CategoricalFilter(field, parseEntities(value))

----------------------------------------------------------------------------
(* queryFromParams                                                         *)

\* the absence value null, which is no string
Null == <<"null">>

SelectFromObs ==
    <<"S","E","L","E","C","T"," ","*"," ","F","R","O","M"," ","o","b","s">>

BetweenText == <<"\""," ","B","E","T","W","E","E","N"," ">>

AndText == <<" ","A","N","D"," ">>

InText == <<"\""," ","I","N"," ","(">>

\* the clause of one filter
Clause(filter) ==
    IF filter.kind = "range"
    THEN <<DQ>> \o filter.field \o BetweenText
         \o NumberText(filter.values[1]) \o AndText
         \o NumberText(filter.values[2])
    ELSE <<DQ>> \o filter.field \o InText
         \o Join([i \in 1..Len(filter.values) |->
                    <<SQ>> \o filter.values[i] \o <<SQ>>], <<",", " ">>)
         \o <<")">>

\* StatementOf without the test for an empty list
StatementOfAnyLength(filters) ==
    SelectFromObs \o <<" ","W","H","E","R","E"," ">>
    \o Join([i \in 1..Len(filters) |-> Clause(filters[i])], AndText)

\* the statement built from the decoded filters
StatementOf(filters) ==
    IF Len(filters) = 0 THEN Null
    ELSE SelectFromObs \o <<" ","W","H","E","R","E"," ">>
         \o Join([i \in 1..Len(filters) |-> Clause(filters[i])], AndText)

DecodeParams(params) ==
    [i \in 1..Len(params) |->
        deserializeFilterSearchParam(params[i][1], params[i][2])]

queryFromParams(params) == StatementOf(DecodeParams(params))

----------------------------------------------------------------------------
(* extractFilters                                                          *)

LowerCase ==
    <<"a","b","c","d","e","f","g","h","i","j","k","l","m",
      "n","o","p","q","r","s","t","u","v","w","x","y","z">>

UpperCase ==
    <<"A","B","C","D","E","F","G","H","I","J","K","L","M",
      "N","O","P","Q","R","S","T","U","V","W","X","Y","Z">>

\* the canonical form of a character under the flag i
Canonical(c) ==
    IF \E n \in 1..Len(LowerCase) : LowerCase[n] = c
    THEN UpperCase[CHOOSE n \in 1..Len(LowerCase) : LowerCase[n] = c]
    ELSE c

\* whether the keyword kw (upper case) stands in s at p, ignoring case
KeywordAt(s, p, kw) ==
    /\ p >= 1
    /\ p + Len(kw) - 1 <= Len(s)
    /\ \A i \in 1..Len(kw) : Canonical(s[p + i - 1]) = kw[i]

ClauseKeywords ==
    {<<"O","R","D","E","R"," ","B","Y">>, <<"L","I","M","I","T">>,
     <<"G","R","O","U","P"," ","B","Y">>}

\* (?:\s+(?:ORDER BY|LIMIT|GROUP BY)\s|$) at position q
WhereEndsAt(s, q) ==
    \/ q = Len(s) + 1
    \/ \E u \in q..RunEnd(s, q, Whitespace) : \E kw \in ClauseKeywords :
          /\ KeywordAt(s, u + 1, kw)
          /\ u + 1 + Len(kw) <= Len(s)
          /\ s[u + 1 + Len(kw)] \in Whitespace

\* the ends q - 1 of the captures (.*?) that start at c and let the match
\* complete
CaptureEnds(s, c) ==
    {q \in c..(Len(s) + 1) :
        /\ \A j \in c..(q - 1) : s[j] \notin LineTerminators
        /\ WhereEndsAt(s, q)}

\* the starts c of group 1 for a match that begins at p: WHERE, then one or
\* more whitespace characters
CaptureStarts(s, p) ==
    IF KeywordAt(s, p, <<"W","H","E","R","E">>)
    THEN {c \in (p + 6)..(RunEnd(s, p + 5, Whitespace) + 1) :
             CaptureEnds(s, c) # {}}
    ELSE {}

\* sql.match(/WHERE\s+(.*?)(?:\s+(?:ORDER BY|LIMIT|GROUP BY)\s|$)/i): group 1
\* in <<text>>, or <<>> when nothing matches.  The match is the leftmost one,
\* \s+ takes as much as it can and .*? as little as it can.
WhereMatch(sql) ==
    LET starts == {p \in 1..Len(sql) : CaptureStarts(sql, p) # {}}
    IN  IF starts = {} THEN <<>>
        ELSE LET p == CHOOSE x \in starts : \A o \in starts : x <= o
                 c == CHOOSE x \in CaptureStarts(sql, p) :
                          \A o \in CaptureStarts(sql, p) : x >= o
                 q == CHOOSE x \in CaptureEnds(sql, c) :
                          \A o \in CaptureEnds(sql, c) : x <= o
             IN  <<Sub(sql, c, q - 1)>>

RECURSIVE SplitFrom(_, _, _, _)
\* String.prototype.split for a separator string: the pieces of s from
\* position p on, the current piece having started at b
SplitFrom(s, sep, b, p) ==
    IF p > Len(s) THEN <<Sub(s, b, Len(s))>>
    ELSE IF LitAt(s, p, sep)
         THEN <<Sub(s, b, p - 1)>>
              \o SplitFrom(s, sep, p + Len(sep), p + Len(sep))
    ELSE SplitFrom(s, sep, b, p + 1)

Split(s, sep) == SplitFrom(s, sep, 1, 1)

RECURSIVE Trim(_)
\* String.prototype.trim
Trim(s) ==
    IF Len(s) > 0 /\ s[1] \in Whitespace THEN Trim(Tail(s))
    ELSE IF Len(s) > 0 /\ s[Len(s)] \in Whitespace
         THEN Trim(Sub(s, 1, Len(s) - 1))
    ELSE s

\* the position of the first character c of s at or after p, 0 when none
RECURSIVE Find(_, _, _)
Find(s, p, c) ==
    IF p > Len(s) THEN 0 ELSE IF s[p] = c THEN p ELSE Find(s, p + 1, c)

IsNotDistinctText ==
    <<"\""," ","I","S"," ","N","O","T"," ","D","I","S","T","I","N","C","T",
      " ","F","R","O","M"," ","'">>

\* "([^"]+)" IS NOT DISTINCT FROM '([^']+)' from the quote at p:
\* <<field, value>>, or <<>>
CategoricalAt(s, p) ==
    LET q == Find(s, p + 1, DQ)
        v == q + Len(IsNotDistinctText)
        z == Find(s, v, SQ)
    IN  IF /\ s[p] = DQ
           /\ q > p + 1
           /\ LitAt(s, q, IsNotDistinctText)
           /\ z > v
        THEN <<Sub(s, p + 1, q - 1), Sub(s, v, z - 1)>>
        ELSE <<>>

\* "([^"]+)" BETWEEN (\d+.\d+) AND (\d+.\d+) from the quote at p:
\* <<field, min text, max text>>, or <<>>
BetweenAt(s, p) ==
    LET q == Find(s, p + 1, DQ)
        n == q + Len(BetweenText)
        pair == NumPairAt(s, n, AndText)
    IN  IF /\ s[p] = DQ
           /\ q > p + 1
           /\ LitAt(s, q, BetweenText)
           /\ pair # <<>>
        THEN <<Sub(s, p + 1, q - 1), Sub(s, n, pair[1]),
               Sub(s, pair[1] + Len(AndText) + 1, pair[2])>>
        ELSE <<>>

\* cond.match(/"([^"]+)" IS NOT DISTINCT FROM '([^']+)'/): the groups of the
\* leftmost match, or <<>>
CategoricalMatch(s) ==
    LET starts == {p \in 1..Len(s) : CategoricalAt(s, p) # <<>>}
    IN  IF starts = {} THEN <<>>
        ELSE CategoricalAt(s, CHOOSE p \in starts : \A o \in starts : p <= o)

\* cond.match(/"([^"]+)" BETWEEN (\d+.\d+) AND (\d+.\d+)/): the groups of
\* the leftmost match, or <<>>
BetweenMatch(s) ==
    LET starts == {p \in 1..Len(s) : BetweenAt(s, p) # <<>>}
    IN  IF starts = {} THEN <<>>
        ELSE BetweenAt(s, CHOOSE p \in starts : \A o \in starts : p <= o)

UnsupportedText ==
    <<"U","n","s","u","p","p","o","r","t","e","d"," ",
      "c","o","n","d","i","t","i","o","n",":"," ">>

Returned(filters) == [ok |-> TRUE, filters |-> filters, error |-> <<>>]

Raised(message) == [ok |-> FALSE, filters |-> <<>>, error |-> message]

\* whereMatch[1].split(") AND (").map((f) => f.trim())
Conditions(clause) ==
    LET parts == Split(clause, <<")"," ","A","N","D"," ","(">>)
    IN  [i \in 1..Len(parts) |-> Trim(parts[i])]

\* the filter of one condition, in <<filter>>, or <<>> when the condition
\* matches neither pattern
FilterOf(cond) ==
    LET cat == CategoricalMatch(cond)
        rng == BetweenMatch(cond)
    IN  IF cat # <<>> THEN <<CategoricalFilter(cat[1], <<cat[2]>>)>>
        ELSE IF rng # <<>>
             THEN <<RangeFilter(rng[1], Number(rng[2]), Number(rng[3]))>>
        ELSE <<>>

RECURSIVE ExtractLoop(_, _, _)
\* the loop over conditions from the i-th on, with the filters pushed so far
ExtractLoop(conditions, i, filters) ==
    IF i > Len(conditions) THEN Returned(filters)
    ELSE IF FilterOf(conditions[i]) = <<>>
         THEN Raised(UnsupportedText \o conditions[i])
    ELSE ExtractLoop(conditions, i + 1,
                     filters \o FilterOf(conditions[i]))

extractFilters(sql) ==
    LET whereMatch == WhereMatch(sql)
    IN  IF whereMatch = <<>> THEN Returned(<<>>)
        ELSE ExtractLoop(Conditions(whereMatch[1]), 1, <<>>)

----------------------------------------------------------------------------
(* serializeAndWriteFilterSearchParams                                     *)

\* the entry appended for one filter
ParamOf(filter) ==
    IF filter.kind = "range"
    THEN <<filter.field,
           Join([i \in 1..Len(filter.values) |-> NumberText(filter.values[i])],
                <<" ">>)>>
    ELSE <<filter.field, EncodeValues(filter.values)>>

\* the loop that appends one entry per filter
WriteFilters(params, filters) ==
    params \o [i \in 1..Len(filters) |-> ParamOf(filters[i])]

\* the container after the call, and whether the call raised
serializeAndWriteFilterSearchParams(params, sql) ==
    LET r == extractFilters(sql)
    IN  IF r.ok THEN [ok |-> TRUE, params |-> WriteFilters(params, r.filters),
                      error |-> <<>>]
        ELSE [ok |-> FALSE, params |-> params, error |-> r.error]

----------------------------------------------------------------------------
(* URLSearchParams: the text of a container and the container of a text    *)

Letters ==
    {LowerCase[n] : n \in 1..Len(LowerCase)}
    \cup {UpperCase[n] : n \in 1..Len(UpperCase)}

\* the characters the form encoding leaves as they are
Unreserved == Letters \cup Digits \cup {"*", "-", ".", "_"}

\* <<character, first hex digit, second hex digit>> of the characters that
\* are percent-encoded
PercentCodes ==
    {<<"\t", "0", "9">>, <<"\n", "0", "A">>, <<DQ, "2", "2">>,
     <<"%", "2", "5">>, <<"&", "2", "6">>, <<SQ, "2", "7">>,
     <<"(", "2", "8">>, <<")", "2", "9">>, <<"+", "2", "B">>,
     <<",", "2", "C">>, <<"=", "3", "D">>, <<">", "3", "E">>,
     <<BS, "5", "C">>}

EncodeChar(c) ==
    IF c = " " THEN <<"+">>
    ELSE IF c \in Unreserved THEN <<c>>
    ELSE LET code == CHOOSE t \in PercentCodes : t[1] = c
         IN  <<"%", code[2], code[3]>>

RECURSIVE FormEncode(_)
FormEncode(s) ==
    IF Len(s) = 0 THEN <<>> ELSE EncodeChar(s[1]) \o FormEncode(Tail(s))

RECURSIVE FormDecode(_)
FormDecode(s) ==
    IF Len(s) = 0 THEN <<>>
    ELSE IF s[1] = "+" THEN <<" ">> \o FormDecode(Tail(s))
    ELSE IF s[1] = "%" /\ Len(s) >= 3
            /\ \E t \in PercentCodes : t[2] = s[2] /\ t[3] = s[3]
         THEN <<(CHOOSE t \in PercentCodes : t[2] = s[2] /\ t[3] = s[3])[1]>>
              \o FormDecode(Sub(s, 4, Len(s)))
    ELSE <<s[1]>> \o FormDecode(Tail(s))

\* params.toString()
ParamsText(entries) ==
    Join([i \in 1..Len(entries) |->
            FormEncode(entries[i][1]) \o <<"=">> \o FormEncode(entries[i][2])],
         <<"&">>)

\* the search component of a URL whose query is text
SearchOf(text) == IF Len(text) = 0 THEN <<>> ELSE <<"?">> \o text

\* the <<name, value>> of one name=value piece
EntryOf(piece) ==
    LET eq == Find(piece, 1, "=")
    IN  IF eq = 0 THEN <<FormDecode(piece), <<>>>>
        ELSE <<FormDecode(Sub(piece, 1, eq - 1)),
               FormDecode(Sub(piece, eq + 1, Len(piece)))>>

\* new URLSearchParams(text)
URLSearchParams(text) ==
    LET body   == IF Len(text) > 0 /\ text[1] = "?" THEN Tail(text) ELSE text
        pieces == SelectSeq(Split(body, <<"&">>), LAMBDA x : Len(x) > 0)
    IN  [i \in 1..Len(pieces) |-> EntryOf(pieces[i])]

----------------------------------------------------------------------------
(* The parts of the state a specification does not use                     *)

EntitiesIdle ==
    /\ V = <<>>
    /\ encoded = <<>>
    /\ entities = <<>>
    /\ epc = "idle"

FiltersIdle ==
    /\ F = <<>>
    /\ container = <<>>
    /\ decoded = <<>>
    /\ statement = Null
    /\ extracted = Returned(<<>>)
    /\ fpc = "idle"

ExtractIdle ==
    /\ table = <<>>
    /\ conds = <<>>
    /\ style = "none"
    /\ emitted = <<>>
    /\ result = Returned(<<>>)
    /\ written = [ok |-> TRUE, params |-> <<>>, error |-> <<>>]
    /\ xpc = "idle"

EmbedIdle ==
    /\ mode = "none"
    /\ search = <<>>
    /\ pc = "idle"
    /\ query = Null
    /\ task = <<>>
    /\ execs = <<>>
    /\ widget = <<>>
    /\ appended = 0
    /\ links = <<>>
    /\ notified = <<>>

----------------------------------------------------------------------------
(* SpecEntities: the encoder of categorical values and the Entity Parser   *)

MaxValues == 2

mouse == <<"m","o","u","s","e">>

homo_sapiens == <<"h","o","m","o"," ","s","a","p","i","e","n","s">>

t_cell == <<"T","\t","c","e","l","l">>

brain == <<"b","r","a","i","n">>

Values == {mouse, homo_sapiens, t_cell, brain, <<"5","'">>, <<"1","0">>}

ValueLists == UNION {[1..n -> Values] : n \in 0..MaxValues}

InitEntities ==
    /\ V \in ValueLists
    /\ encoded = <<>>
    /\ entities = <<>>
    /\ epc = "input"
    /\ FiltersIdle
    /\ ExtractIdle
    /\ EmbedIdle

Encode ==
    /\ epc = "input"
    /\ encoded' = EncodeValues(V)
    /\ epc' = "encoded"
    /\ UNCHANGED <<V, entities, filterVars, extractVars, embedVars>>

Parse ==
    /\ epc = "encoded"
    /\ entities' = parseEntities(encoded)
    /\ epc' = "parsed"
    /\ UNCHANGED <<V, encoded, filterVars, extractVars, embedVars>>

NextEntities == Encode \/ Parse

SpecEntities == InitEntities /\ [][NextEntities]_vars

\* C3: parseEntities applied to the space-joined encoding of V, with every
\* value that contains whitespace double-quoted, returns exactly V.
EntityRoundTrip == epc = "parsed" => entities = V

----------------------------------------------------------------------------
(* SpecFilters: a filter list written to parameters and read back, and     *)
(* built into a statement and extracted again                              *)

MaxFilters == 2

age == <<"a","g","e">>

organ == <<"o","r","g","a","n">>

Fields == {age, organ}

Num(m, k) == Normalise(m, k)

\* the [min, max] pairs of the range filters: 10..20, 1.5..20.25, 100..2500
RangePairs ==
    {<<Num(10, 0), Num(20, 0)>>, <<Num(15, 1), Num(2025, 2)>>,
     <<Num(100, 0), Num(2500, 0)>>}

CategoricalLists == {<<brain>>, <<homo_sapiens, mouse>>, <<t_cell>>}

Filters ==
    {RangeFilter(f, r[1], r[2]) : f \in Fields, r \in RangePairs}
    \cup {CategoricalFilter(f, v) : f \in Fields, v \in CategoricalLists}

FilterLists == UNION {[1..n -> Filters] : n \in 0..MaxFilters}

InitFilters ==
    /\ F \in FilterLists
    /\ container = <<>>
    /\ decoded = <<>>
    /\ statement = Null
    /\ extracted = Returned(<<>>)
    /\ fpc = "input"
    /\ EntitiesIdle
    /\ ExtractIdle
    /\ EmbedIdle

WriteParams ==
    /\ fpc = "input"
    /\ container' = WriteFilters(container, F)
    /\ fpc' = "written"
    /\ UNCHANGED <<F, decoded, statement, extracted, entityVars, extractVars, embedVars>>

ReadParams ==
    /\ fpc = "written"
    /\ decoded' = DecodeParams(container)
    /\ fpc' = "decoded"
    /\ UNCHANGED <<F, container, statement, extracted, entityVars, extractVars, embedVars>>

BuildStatement ==
    /\ fpc = "input"
    /\ statement' = StatementOf(F)
    /\ fpc' = "built"
    /\ UNCHANGED <<F, container, decoded, extracted, entityVars, extractVars, embedVars>>

ExtractStatement ==
    /\ fpc = "built"
    /\ statement # Null
    /\ extracted' = extractFilters(statement)
    /\ fpc' = "extracted"
    /\ UNCHANGED <<F, container, decoded, statement, entityVars, extractVars, embedVars>>

NextFilters ==
    WriteParams \/ ReadParams \/ BuildStatement \/ ExtractStatement

SpecFilters == InitFilters /\ [][NextFilters]_vars

\* C1: extractFilters on the statement built for F succeeds and returns a
\* filter list equal to F in field, kind and values.
SqlRoundTrip ==
    fpc = "extracted" => extracted.ok /\ extracted.filters = F

\* C2: the entries written for F decode to F: as many filters, in the same
\* order, each with the same field, kind and values.
ParamRoundTrip == fpc = "decoded" => decoded = F

----------------------------------------------------------------------------
(* SpecExtract: extractFilters on statements made of sub-conditions        *)

MaxConds == 2

Categorical(field, value) ==
    [shape |-> "categorical", field |-> field, min |-> <<>>, max |-> <<>>,
     text |-> <<DQ>> \o field \o IsNotDistinctText \o value \o <<SQ>>]

Between(field, min, max) ==
    [shape |-> "range", field |-> field, min |-> min, max |-> max,
     text |-> <<DQ>> \o field \o BetweenText \o min \o AndText \o max]

\* a comparison, which is neither of the two supported shapes
Other(text) ==
    [shape |-> "other", field |-> <<>>, min |-> <<>>, max |-> <<>>,
     text |-> text]

\* the numeric literals of the range conditions: 10.0 and 20.0, 5 and 20,
\* 100 and 2500, 0.5 and 1.25
LiteralPairs ==
    {<<<<"1","0",".","0">>, <<"2","0",".","0">>>>,
     <<<<"5">>, <<"2","0">>>>,
     <<<<"1","0","0">>, <<"2","5","0","0">>>>,
     <<<<"0",".","5">>, <<"1",".","2","5">>>>}

SubConditions ==
    {Categorical(organ, brain), Categorical(organ, homo_sapiens)}
    \cup {Between(age, l[1], l[2]) : l \in LiteralPairs}
    \cup {Other(<<"\"","x","\""," ",">"," ","5">>)}

CondLists == UNION {[1..n -> SubConditions] : n \in 0..MaxConds}

\* "grouped": each sub-condition in its own parentheses, as the comments of
\* extractFilters show them; "plain": joined as queryFromParams joins them
Styles == {"grouped", "plain"}

obs_subset == <<"o","b","s","_","s","u","b","s","e","t">>

elsewhere == <<"e","l","s","e","w","h","e","r","e">>

Tables == {obs_subset, elsewhere}

Suffixes ==
    {<<>>,
     <<" ","O","R","D","E","R"," ","B","Y"," ","\"","a","g","e","\""," ",
       "D","E","S","C">>,
     <<" ","L","I","M","I","T"," ","5">>}

\* the WHERE clause of a list of sub-conditions, none for the empty list
WhereText(cs, st) ==
    IF Len(cs) = 0 THEN <<>>
    ELSE <<" ","W","H","E","R","E"," ">>
         \o Join([i \in 1..Len(cs) |->
                    IF st = "grouped" THEN <<"(">> \o cs[i].text \o <<")">>
                    ELSE cs[i].text],
                 AndText)

SqlText(tbl, cs, st, suffix) ==
    <<"S","E","L","E","C","T"," ","*"," ","F","R","O","M"," ">>
    \o tbl \o WhereText(cs, st) \o suffix

InitExtract ==
    /\ table \in Tables
    /\ conds \in CondLists
    /\ style \in Styles
    /\ \E suffix \in Suffixes :
          emitted = SqlText(table, conds, style, suffix)
    /\ result = Returned(<<>>)
    /\ written = [ok |-> TRUE, params |-> <<>>, error |-> <<>>]
    /\ xpc = "input"
    /\ EntitiesIdle
    /\ FiltersIdle
    /\ EmbedIdle

Extract ==
    /\ xpc = "input"
    /\ result' = extractFilters(emitted)
    /\ xpc' = "extracted"
    /\ UNCHANGED <<table, conds, style, emitted, written, entityVars, filterVars,
                   embedVars>>

Serialize ==
    /\ xpc = "extracted"
    /\ written' = serializeAndWriteFilterSearchParams(<<>>, emitted)
    /\ xpc' = "written"
    /\ UNCHANGED <<table, conds, style, emitted, result, entityVars, filterVars,
                   embedVars>>

NextExtract == Extract \/ Serialize

SpecExtract == InitExtract /\ [][NextExtract]_vars

\* the filter a sub-condition of a supported shape stands for
FilterFor(c) ==
    IF c.shape = "categorical"
    THEN CategoricalFilter(c.field, <<Sub(c.text,
             Len(c.field) + Len(IsNotDistinctText) + 2, Len(c.text) - 1)>>)
    ELSE RangeFilter(c.field, Number(c.min), Number(c.max))

\* extractFilters has run on a statement over the subset view
Extracted == xpc \in {"extracted", "written"} /\ table = obs_subset

\* C4: when extractFilters returns, there is one filter per sub-condition,
\* in clause order, the i-th with the field, kind and values of the i-th
\* sub-condition.
ExtractionGuarantee ==
    (Extracted /\ result.ok) =>
        /\ Len(result.filters) = Len(conds)
        /\ \A i \in 1..Len(conds) :
              /\ conds[i].shape # "other"
              /\ result.filters[i] = FilterFor(conds[i])

\* C5: a WHERE clause whose sub-condition is "<field>" BETWEEN <min> AND
\* <max> yields the RangeFilter of that field with the two numbers; it never
\* raises.
RangeRecognition ==
    (Extracted /\ style = "grouped" /\ Len(conds) = 1
        /\ conds[1].shape = "range") =>
        /\ result.ok
        /\ result.filters = <<FilterFor(conds[1])>>

\* C6: when a sub-condition matches neither pattern, extractFilters raises
\* an error that names that sub-condition (with or without the parentheses
\* around it) and nothing is appended to the parameters.
UnsupportedNamed ==
    \A i \in 1..Len(conds) :
        (Extracted /\ conds[i].shape = "other") =>
            /\ ~result.ok
            /\ result.error \in
                  {UnsupportedText \o conds[i].text,
                   UnsupportedText \o <<"(">> \o conds[i].text \o <<")">>}
            /\ xpc = "written" => (~written.ok /\ written.params = <<>>)

\* C7: a statement without a WHERE clause extracts to the empty filter list
\* and does not raise.
NoWhereIsEmpty ==
    (xpc \in {"extracted", "written"} /\ Len(conds) = 0) =>
        (result.ok /\ result.filters = <<>>)

----------------------------------------------------------------------------
(* SpecEmbed: embed, from the page load to the notifications of the widget *)

MaxParams == 2

TableNames == {"obs", "cells"}

\* options.mode === "obs" ? ["obs"] : ["obs", "cells"]
RequiredTables(m) == IF m = "obs" THEN {"obs"} ELSE {"obs", "cells"}

\* AllRegistered for Promise.any in place of Promise.all
AnyRegistered(m, tk) == \E t \in RequiredTables(m) : tk[t] = "done"

\* the promises of registerTables have all been fulfilled
AllRegistered(m, tk) == \A t \in RequiredTables(m) : tk[t] = "done"

\* one of the promises of registerTables has been rejected
SomeRejected(tk) == \E t \in TableNames : tk[t] = "failed"

CreateObsText ==
    <<"C","R","E","A","T","E"," ","T","A","B","L","E"," ","o","b","s"," ",
      "A","S"," ","S","E","L","E","C","T"," ","*"," ","F","R","O","M"," ",
      "r","e","a","d","_","p","a","r","q","u","e","t","(","'","o","b","s",
      ".","p","a","r","q","u","e","t","'",")">>

CreateViewText ==
    <<"C","R","E","A","T","E"," ","V","I","E","W"," ","o","b","s","_","s",
      "u","b","s","e","t"," ","A","S"," ">>

CreateCellsText ==
    <<"C","R","E","A","T","E"," ","T","A","B","L","E"," ","c","e","l","l",
      "s"," ","A","S"," ","S","E","L","E","C","T"," ","*"," ","F","R","O",
      "M"," ","r","e","a","d","_","p","a","r","q","u","e","t","(","'","c",
      "e","l","l","s",".","p","a","r","q","u","e","t","'",")">>

CreateCellsViewText ==
    <<"C","R","E","A","T","E"," ","V","I","E","W"," ","c","e","l","l","s",
      "_","s","u","b","s","e","t"," ","A","S"," ","S","E","L","E","C","T",
      " ","c","e","l","l","s",".","*"," ","F","R","O","M"," ","o","b","s",
      "_","s","u","b","s","e","t"," ","J","O","I","N"," ","c","e","l","l",
      "s"," ","O","N"," ","o","b","s","_","s","u","b","s","e","t",".","o",
      "b","s","e","r","v","a","t","i","o","n","_","i","d"," ","="," ","c",
      "e","l","l","s",".","o","b","s","e","r","v","a","t","i","o","n","_",
      "i","d">>

\* the statements handed to exec
ExecStatements(m, q) ==
    <<CreateObsText,
      CreateViewText \o (IF q = Null THEN SelectFromObs ELSE q)>>
    \o (IF m = "obs" THEN <<>> ELSE <<CreateCellsText, CreateCellsViewText>>)

\* `${options.mode}_subset`
ViewName(m) ==
    (IF m = "obs" THEN <<"o","b","s">> ELSE <<"c","e","l","l","s">>)
    \o <<"_","s","u","b","s","e","t">>

\* the entries the page may be loaded with: a range, one that reads as two
\* words, and two categorical ones
LoadedEntries ==
    {<<age, <<"1","0","0"," ","2","5","0","0">>>>,
     <<age, <<"1","0"," ","2","0">>>>,
     <<organ, brain>>,
     <<organ, <<DQ>> \o homo_sapiens \o <<DQ, " ">> \o mouse>>}

EntryLists == UNION {[1..n -> LoadedEntries] : n \in 0..MaxParams}

\* the sub-conditions of the statements the widget notifies
NotifiedConditions ==
    {Categorical(organ, brain),
     Between(age, <<"1","0",".","0">>, <<"2","0",".","0">>),
     Between(age, <<"5">>, <<"2","0">>)}

\* the statements notified: no filter left, one filter, or a categorical
\* filter and a range
NotifiedLists ==
    {<<>>} \cup {<<c>> : c \in NotifiedConditions}
    \cup {<<Categorical(organ, brain),
            Between(age, <<"1","0",".","0">>, <<"2","0",".","0">>)>>}

NoTask == [t \in TableNames |-> "unused"]

InitEmbed ==
    /\ mode \in {"obs", "cells"}
    /\ \E es \in EntryLists : search = SearchOf(ParamsText(es))
    /\ pc = "start"
    /\ query = Null
    /\ task = NoTask
    /\ execs = <<>>
    /\ widget = <<>>
    /\ appended = 0
    /\ links = <<>>
    /\ notified = [any |-> FALSE, conds |-> <<>>]
    /\ EntitiesIdle
    /\ FiltersIdle
    /\ ExtractIdle

codecVars == <<entityVars, filterVars, extractVars>>

\* let query = queryFromParams(new URLSearchParams(globalThis.location.search))
ReadQuery ==
    /\ pc = "start"
    /\ query' = queryFromParams(URLSearchParams(search))
    /\ pc' = "connect"
    /\ UNCHANGED <<mode, search, task, execs, widget, appended, links,
                   notified, codecVars>>

\* await connector.getDuckDB(), and then registerTables starts one task per
\* table, each of which calls fetch
GetDuckDB ==
    /\ pc = "connect"
    /\ \E ok \in BOOLEAN :
          IF ok
          THEN /\ pc' = "register"
               /\ task' = [t \in TableNames |->
                             IF t \in RequiredTables(mode) THEN "fetch"
                             ELSE "unused"]
          ELSE /\ pc' = "failed"
               /\ task' = task
    /\ UNCHANGED <<mode, search, query, execs, widget, appended, links,
                   notified, codecVars>>

\* one await of the task of table t settles: the promise is fulfilled (ok)
\* or rejected
TaskStep(t, from, to) ==
    /\ task[t] = from
    /\ \E ok \in BOOLEAN :
          task' = [task EXCEPT ![t] = IF ok THEN to ELSE "failed"]
    /\ UNCHANGED <<mode, search, pc, query, execs, widget, appended, links,
                   notified, codecVars>>

\* let response = await fetch(url)
Fetched == \E t \in TableNames : TaskStep(t, "fetch", "body")

\* await response.arrayBuffer()
BodyRead == \E t \in TableNames : TaskStep(t, "body", "register")

\* await db.registerFileBuffer(`${tableName}.parquet`, bytes)
Registered == \E t \in TableNames : TaskStep(t, "register", "done")

\* await Promise.all(promises) is fulfilled, and embed calls exec
CallExec ==
    /\ pc = "register"
    /\ AllRegistered(mode, task)
    /\ execs' = ExecStatements(mode, query)
    /\ pc' = "exec"
    /\ UNCHANGED <<mode, search, query, task, widget, appended, links,
                   notified, codecVars>>

\* await Promise.all(promises) is rejected, and embed with it
RegisterRejected ==
    /\ pc = "register"
    /\ SomeRejected(task)
    /\ pc' = "failed"
    /\ UNCHANGED <<mode, search, query, task, execs, widget, appended, links,
                   notified, codecVars>>

\* await exec(...) settles, and embed calls quak.datatable
CallDatatable ==
    /\ pc = "exec"
    /\ \E ok \in BOOLEAN :
          IF ok THEN widget' = ViewName(mode) /\ pc' = "datatable"
          ELSE widget' = widget /\ pc' = "failed"
    /\ UNCHANGED <<mode, search, query, task, execs, appended, links,
                   notified, codecVars>>

\* await quak.datatable(...) settles; applyCellReformatting asserts that the
\* widget holds a <table>; the widget is appended and, in mode "obs", the
\* list of the two links, whose href starts as that of the page
Mount ==
    /\ pc = "datatable"
    /\ \E outcome \in {"ok", "rejected", "assert"} :
          IF outcome = "ok"
          THEN /\ appended' = IF mode = "obs" THEN 2 ELSE 1
               /\ links' = IF mode = "obs" THEN <<search, search>> ELSE <<>>
               /\ pc' = IF mode = "obs" THEN "live" ELSE "done"
          ELSE /\ appended' = appended
               /\ links' = links
               /\ pc' = "failed"
    /\ UNCHANGED <<mode, search, query, task, execs, widget, notified,
                   codecVars>>

\* the subscriber of dt.sql for a statement: the links are rewritten unless
\* serializeAndWriteFilterSearchParams raises
NotifySql ==
    /\ pc = "live"
    /\ \E cs \in NotifiedLists :
          \E w \in {serializeAndWriteFilterSearchParams(
                         URLSearchParams(search),
                         SqlText(obs_subset, cs, "grouped", <<>>))} :
              /\ notified' = [any |-> TRUE, conds |-> cs]
              /\ \E href \in {IF w.ok THEN SearchOf(ParamsText(w.params))
                                ELSE <<>>} :
                    links' = IF w.ok
                             THEN [i \in 1..Len(links) |-> href]
                             ELSE links
    /\ UNCHANGED <<mode, search, pc, query, task, execs, widget, appended,
                   codecVars>>

\* the subscriber of dt.sql for undefined: if (!sql) return
NotifyUndefined ==
    /\ pc = "live"
    /\ UNCHANGED vars

NextEmbed ==
    \/ ReadQuery \/ GetDuckDB
    \/ Fetched \/ BodyRead \/ Registered
    \/ CallExec \/ RegisterRejected
    \/ CallDatatable \/ Mount
    \/ NotifySql \/ NotifyUndefined

SpecEmbed == InitEmbed /\ [][NextEmbed]_vars

RECURSIVE ClausesInOrder(_)
\* one clause per entry, in entry order, with AND between them
ClausesInOrder(es) ==
    LET last == es[Len(es)]
        c    == Clause(deserializeFilterSearchParam(last[1], last[2]))
    IN  IF Len(es) = 1 THEN c
        ELSE ClausesInOrder(Sub(es, 1, Len(es) - 1)) \o AndText \o c

\* C8: queryFromParams returns null for a parameter set with no entries,
\* and embed then defines the subset view over SELECT * FROM obs; for a
\* non-empty set it returns SELECT * FROM obs WHERE with one clause per
\* entry, joined by AND, in entry order.
EmptyParamsMeanNoFilter ==
    pc # "start" =>
        LET es == URLSearchParams(search)
        IN  /\ Len(es) = 0 =>
                  /\ query = Null
                  /\ execs # <<>> => execs[2] = CreateViewText \o SelectFromObs
            /\ Len(es) > 0 =>
                  query = SelectFromObs \o <<" ","W","H","E","R","E"," ">>
                          \o ClausesInOrder(es)

UnfilteredViewDefined ==
    /\ search = <<>>
    /\ query = Null
    /\ execs # <<>>

\* C9: exec and the creation of the widget start only after the
\* fetch-and-register of every required file has completed (obs in mode
\* "obs", obs and cells in mode "cells"); when a fetch or a registration
\* fails, exec is not called, no widget is created and nothing is appended.
SetupOrdering ==
    /\ (execs # <<>> \/ widget # <<>> \/ appended > 0) =>
          /\ task["obs"] = "done"
          /\ mode = "cells" => task["cells"] = "done"
    /\ mode = "obs" => task["cells"] = "unused"
    /\ (\E t \in TableNames : task[t] = "failed") =>
          /\ execs = <<>>
          /\ widget = <<>>
          /\ appended = 0
          /\ pc \in {"register", "failed"}

BothFilesRegisteredBeforeExec ==
    /\ mode = "cells"
    /\ pc = "exec"
    /\ execs # <<>>
    /\ task["obs"] = "done"
    /\ task["cells"] = "done"

\* the entries of the filters of the latest statement notified
NotifiedEntries ==
    [i \in 1..Len(notified.conds) |-> ParamOf(FilterFor(notified.conds[i]))]

\* C10: after any sequence of notifications, both links carry the
\* parameters the page was loaded with followed by one entry per filter of
\* the latest statement notified.
LinkSynchronisation ==
    (pc = "live" /\ notified.any) =>
        \A i \in 1..Len(links) :
            URLSearchParams(links[i])
                = URLSearchParams(search) \o NotifiedEntries

----------------------------------------------------------------------------
(* SpecCategorical: the categorical filters the codec produces, from the   *)
(* parameters the page is loaded with and from the statements of the widget *)

\* the values a parameter may be loaded with: empty, one space, an empty
\* pair of quotes, a space and a tab, one word, a quoted value and a word,
\* and two numbers of two digits
RawValues ==
    {<<>>, <<" ">>, <<DQ, DQ>>, <<" ", "\t">>, brain,
     <<DQ>> \o homo_sapiens \o <<DQ, " ">> \o mouse,
     <<"1","0"," ","2","0">>}

RawParamLists ==
    UNION {[1..n -> {<<organ, v>> : v \in RawValues}] : n \in 0..MaxParams}

\* the statements of the widget, over the subset view
WidgetStatements ==
    {SqlText(obs_subset, cs, "grouped", <<>>) : cs \in CondLists}

InitCategorical ==
    /\ EntitiesIdle
    /\ EmbedIdle
    /\ \/ /\ container \in RawParamLists
          /\ F = <<>>
          /\ decoded = <<>>
          /\ statement = Null
          /\ extracted = Returned(<<>>)
          /\ fpc = "loaded"
          /\ ExtractIdle
       \/ /\ FiltersIdle
          /\ table = obs_subset
          /\ conds \in CondLists
          /\ style = "grouped"
          /\ emitted = SqlText(table, conds, style, <<>>)
          /\ result = Returned(<<>>)
          /\ written = [ok |-> TRUE, params |-> <<>>, error |-> <<>>]
          /\ xpc = "input"

\* queryFromParams(params): the filters of the entries, and the statement
\* of their clauses
QueryLoaded ==
    /\ fpc = "loaded"
    /\ decoded' = DecodeParams(container)
    /\ statement' = queryFromParams(container)
    /\ fpc' = "queried"
    /\ UNCHANGED <<F, container, extracted, entityVars, extractVars,
                   embedVars>>

NextCategorical == QueryLoaded \/ Extract

SpecCategorical == InitCategorical /\ [][NextCategorical]_vars

\* whether every categorical filter of a list has a value
AllHaveAValue(filters) ==
    \A i \in 1..Len(filters) :
        filters[i].kind = "categorical" => Len(filters[i].values) >= 1

\* whether a statement holds an IN clause with an empty list
HasEmptyIn(q) ==
    \E p \in 1..Len(q) : LitAt(q, p, <<" ","I","N"," ","(",")">>)

\* C11: every categorical filter the codec produces, by extractFilters from
\* a statement or by deserializeFilterSearchParam from a parameter value
\* (an empty value, a whitespace-only value and an empty pair of quotes
\* included), has at least one value, and queryFromParams emits no IN
\* clause with an empty list.
CategoricalNeverEmpty ==
    /\ fpc = "queried" =>
          /\ AllHaveAValue(decoded)
          /\ statement # Null => ~HasEmptyIn(statement)
    /\ (xpc = "extracted" /\ result.ok) => AllHaveAValue(result.filters)

----------------------------------------------------------------------------
(* SpecUnclosed: parseEntities on inputs that end in a quoted span with no *)
(* closing quote                                                           *)

\* what follows the opening quote: nothing, one space, a word, two words,
\* two words and a backslash, and an escaped quote between two letters
Tails ==
    {<<>>, <<" ">>, brain, homo_sapiens,
     <<"T"," ","c","e","l","l",BS>>, <<"a",BS,DQ,"b">>}

\* the encoding of values, and then an opening quote and what follows it
UnclosedInput(values, tail) ==
    EncodeValues(values)
    \o (IF Len(values) = 0 THEN <<>> ELSE <<" ">>)
    \o <<DQ>> \o tail

InitUnclosed ==
    /\ V \in ValueLists
    /\ \E tail \in Tails : encoded = UnclosedInput(V, tail)
    /\ entities = <<>>
    /\ epc = "encoded"
    /\ FiltersIdle
    /\ ExtractIdle
    /\ EmbedIdle

NextUnclosed == Parse

SpecUnclosed == InitUnclosed /\ [][NextUnclosed]_vars

\* C12: for an input with an opening quote that no quote closes,
\* parseEntities returns the tokens of the text before that quote and
\* nothing else: the quote and the text after it contribute no token, and
\* no error is raised.
UnclosedQuoteDropped ==
    epc = "parsed" => entities = parseEntities(EncodeValues(V))

====
